---- MODULE Spec2Model ----
(***************************************************************************)
(* PDF Splitter service (src/main.py): the two split endpoints, their      *)
(* authentication dependency, validation, per-page extraction, the         *)
(* sequential / asyncio.gather scheduling and the two result sinks.        *)
(*                                                                         *)
(* Text (file names, object keys, base64 data) is a sequence of one-       *)
(* character strings; a byte buffer is a sequence of 0..255.  One request  *)
(* is in flight at a time: requests share no mutable state.                *)
(***************************************************************************)
EXTENDS Integers, Sequences, FiniteSets, TLC

\* ------------------------------------------------------------ bounds
\* Largest page count of a document that is actually split.
MaxDocPages == 11
\* A gathered task may run while fewer than SchedWindow pending tasks precede it
\* (1 = strict creation order; larger values let later pages finish first).
SchedWindow == 2
\* Faults (a page that fails to serialise, a put_object that raises) per request.
MaxFaults == 1

\* ------------------------------------------------- program constants
DEFAULT_TOKEN == "pdf-splitter-public-2025"
MAX_FILE_SIZE == 50 * 1024 * 1024
MAX_PAGES == 500
\* The literal of `if total_pages > 10` in both handlers.
PARALLEL_THRESHOLD == 10

\* Python's None where a str token or bucket name is optional, and where a text
\* (a sequence of characters) is optional.
None == "None"
Absent == <<None>>

\* -------------------------------------------------------------- text
UpperCase == <<"A","B","C","D","E","F","G","H","I","J","K","L","M",
               "N","O","P","Q","R","S","T","U","V","W","X","Y","Z">>
LowerCase == <<"a","b","c","d","e","f","g","h","i","j","k","l","m",
               "n","o","p","q","r","s","t","u","v","w","x","y","z">>

\* str.lower(), one character
LowerChar(c) ==
    IF \E i \in 1..26 : UpperCase[i] = c
    THEN LowerCase[CHOOSE i \in 1..26 : UpperCase[i] = c]
    ELSE c

\* str.lower()
Lower(s) == [i \in 1..Len(s) |-> LowerChar(s[i])]

\* str.startswith(pre)
StartsWith(s, pre) ==
    /\ Len(pre) <= Len(s)
    /\ SubSeq(s, 1, Len(pre)) = pre

\* str.endswith(suf)
EndsWith(s, suf) ==
    /\ Len(suf) <= Len(s)
    /\ SubSeq(s, Len(s) - Len(suf) + 1, Len(s)) = suf

DotPdf == <<".", "p", "d", "f">>

\* s.split(sep)[-1]: what follows the last occurrence of the character sep
RECURSIVE LastSegmentFrom(_, _, _)
LastSegmentFrom(s, sep, i) ==
    IF i = 0 THEN s
    ELSE IF s[i] = sep THEN SubSeq(s, i + 1, Len(s))
    ELSE LastSegmentFrom(s, sep, i - 1)

LastSegment(s, sep) == LastSegmentFrom(s, sep, Len(s))

\* s.replace(old, ''): every non-overlapping occurrence, left to right, removed
RECURSIVE RemoveAll(_, _)
RemoveAll(s, old) ==
    IF s = <<>> THEN <<>>
    ELSE IF StartsWith(s, old) THEN RemoveAll(SubSeq(s, Len(old) + 1, Len(s)), old)
    ELSE <<s[1]>> \o RemoveAll(Tail(s), old)

Digits == <<"0","1","2","3","4","5","6","7","8","9">>

\* str(n) of an f-string, n >= 0
RECURSIVE IntToStr(_)
IntToStr(n) ==
    IF n < 10 THEN <<Digits[n + 1]>>
    ELSE IntToStr(n \div 10) \o <<Digits[(n % 10) + 1]>>

PagePart == <<"p","a","g","e","_">>

\* ------------------------------------------------------------ base64
B64Alphabet ==
    <<"A","B","C","D","E","F","G","H","I","J","K","L","M","N","O","P",
      "Q","R","S","T","U","V","W","X","Y","Z","a","b","c","d","e","f",
      "g","h","i","j","k","l","m","n","o","p","q","r","s","t","u","v",
      "w","x","y","z","0","1","2","3","4","5","6","7","8","9","+","/">>

B64Char(v) == B64Alphabet[v + 1]

\* base64.b64encode(b).decode('utf-8')
RECURSIVE b64encode(_)
b64encode(b) ==
    IF Len(b) = 0 THEN <<>>
    ELSE IF Len(b) = 1 THEN
        <<B64Char(b[1] \div 4), B64Char((b[1] % 4) * 16), "=", "=">>
    ELSE IF Len(b) = 2 THEN
        <<B64Char(b[1] \div 4),
          B64Char((b[1] % 4) * 16 + b[2] \div 16),
          B64Char((b[2] % 16) * 4), "=">>
    ELSE
        <<B64Char(b[1] \div 4),
          B64Char((b[1] % 4) * 16 + b[2] \div 16),
          B64Char((b[2] % 16) * 4 + b[3] \div 64),
          B64Char(b[3] % 64)>> \o b64encode(SubSeq(b, 4, Len(b)))

B64Value(c) == (CHOOSE i \in 1..64 : B64Alphabet[i] = c) - 1

\* base64.b64decode(s) of the test script
RECURSIVE b64decode(_)
b64decode(s) ==
    IF Len(s) < 4 THEN <<>>
    ELSE LET v1 == B64Value(s[1])
             v2 == B64Value(s[2])
             rest == b64decode(SubSeq(s, 5, Len(s)))
         IN  IF s[3] = "=" THEN <<v1 * 4 + v2 \div 16>>
             ELSE IF s[4] = "=" THEN
                 <<v1 * 4 + v2 \div 16,
                   (v2 % 16) * 16 + B64Value(s[3]) \div 4>>
             ELSE
                 <<v1 * 4 + v2 \div 16,
                   (v2 % 16) * 16 + B64Value(s[3]) \div 4,
                   (B64Value(s[3]) % 4) * 64 + B64Value(s[4])>> \o rest

\* ------------------------------------------------------------ inputs
Str_report_pdf == <<"r","e","p","o","r","t",".","p","d","f">>
Str_REPORT_PDF == <<"R","E","P","O","R","T",".","P","D","F">>
Str_photo_png == <<"p","h","o","t","o",".","p","n","g">>
Str_invoice_key == <<"d","o","c","s","/","i","n","v","o","i","c","e",".","p","d","f">>
Str_SCAN_key == <<"d","o","c","s","/","S","C","A","N",".","P","D","F">>
Str_double_key == <<"r",".","p","d","f",".","p","d","f">>
Str_notes_key == <<"n","o","t","e","s",".","t","x","t">>
Str_out_prefix == <<"o","u","t","/">>

\* Credentials a caller may send.  HTTPBearer(auto_error=False) yields no
\* credentials object for a missing or empty bearer token; an X-API-Key header
\* may be missing, empty or any text.
BearerValues == {None, DEFAULT_TOKEN, "wrong-token"}
ApiKeyValues == {None, "", DEFAULT_TOKEN, "wrong-token"}
\* API_TOKEN = os.getenv("API_TOKEN", DEFAULT_TOKEN): the default, or whatever
\* the environment holds, the empty string included.
ApiTokenValues == {DEFAULT_TOKEN, ""}

Filenames == {Absent, Str_report_pdf, Str_REPORT_PDF, Str_photo_png}
Buckets == {"", "src-bucket"}
Keys == {<<>>, Str_invoice_key, Str_SCAN_key, Str_double_key, Str_notes_key}

UploadRequests == [filename : Filenames]

\* The output options are read only under save_to_s3 (main.py 471-474).
S3Requests ==
    { r \in [bucket : Buckets, key : Keys, save_to_s3 : BOOLEAN,
             output_prefix : {Absent, Str_out_prefix},
             output_bucket : {None, "dst-bucket"}] :
        ~r.save_to_s3 => (r.output_prefix = Absent /\ r.output_bucket = None) }

NoRequest == [idle |-> TRUE]

\* Byte lengths a body or an object may have.
FileSizes == {0, 1, MAX_FILE_SIZE, MAX_FILE_SIZE + 1}

\* Page counts a parsed document may have: those that are split, and one over
\* the limit.
PageCounts == (0..MaxDocPages) \cup {MAX_PAGES + 1}

\* What s3_client.get_object may do.
GetOutcomes == {"ok", "NoSuchKey", "AccessDenied", "OtherClientError", "OtherException"}

\* What PdfReader(...) and pdf_reader.metadata may do on a non-empty buffer.
ParseOutcomes == {"ok", "open_error", "metadata_error"}

\* Pages of an N-page document on which a fault may be injected: the first
\* and the last.
FaultPages(n) == {p \in {1, n} : 1 <= p /\ p <= n}

\* The bytes PdfWriter.write produces for the single-page document of page p:
\* the "%PDF" header and a body that differs from page to page, of a length
\* that takes every residue modulo 3.
PdfBytes(p) == <<37, 80, 68, 70>> \o [j \in 1..(p % 3) |-> (p * 7 + j * 31) % 256]

\* ------------------------------------------------------------- state
VARIABLES
    API_TOKEN,      \* process configuration, read once at startup
    s3_client,      \* TRUE iff boto3.client was created at startup
    pc,             \* where the request in flight stands
    endpoint,       \* "upload" (POST /split-pdf) or "s3" (POST /split-pdf-from-s3)
    credentials,    \* bearer token of the request, None once verify_token returned
    x_api_key,      \* X-API-Key header of the request, likewise
    request,        \* the UploadFile's filename, or the S3PDFRequest
    file_size,      \* len(file_content), -1 before the content is read
    total_pages,    \* len(pdf_reader.pages), -1 before the document is parsed
    page_num,       \* pages the sequential loop has finished
    tasks,          \* gather: page -> "pending" | "done" | "failed"
    gathered,       \* gather: page -> result of its task
    results,        \* split_files / results of the handler
    faults,         \* faults injected into this request
    body_read,      \* file.read() was called
    s3_gets,        \* get_object calls issued
    get_outcome,    \* how the get_object call ended, None before it
    parse_calls,    \* PdfReader(...) calls made
    extracted,      \* pages whose single-page document was serialised
    encoded,        \* pages whose bytes were base64-encoded
    put_calls,      \* page -> put_object calls issued for it
    store,          \* objects written by this request's put_object calls
    response        \* the HTTP response, NoResponse while none is sent

vars == <<API_TOKEN, s3_client, pc, endpoint, credentials, x_api_key, request,
          file_size, total_pages, page_num, tasks, gathered, results, faults,
          body_read, s3_gets, get_outcome, parse_calls, extracted, encoded,
          put_calls,
          store, response>>

config == <<API_TOKEN, s3_client>>
caller == <<credentials, x_api_key>>
effects == <<body_read, s3_gets, get_outcome, parse_calls, extracted, encoded,
             put_calls, store>>
paging == <<page_num, tasks, gathered, results, faults>>

NoResponse == [status |-> 0]
NoResult == [page_number |-> 0]
EmptyFun == [p \in {} |-> 0]

\* raise HTTPException(status_code, detail), and any other exception
HTTPException(status_code, detail) ==
    [http |-> TRUE, status |-> status_code, detail |-> detail]
OtherException(detail) == [http |-> FALSE, status |-> 0, detail |-> detail]

\* The response FastAPI sends for an HTTPException that leaves the handler.
ErrorResponse(exc) == [status |-> exc.status, detail |-> exc.detail]

Init ==
    /\ API_TOKEN \in ApiTokenValues
    /\ s3_client \in BOOLEAN
    /\ pc = "idle"
    /\ endpoint = None
    /\ credentials = None
    /\ x_api_key = None
    /\ request = NoRequest
    /\ file_size = -1
    /\ total_pages = -1
    /\ page_num = 0
    /\ tasks = EmptyFun
    /\ gathered = EmptyFun
    /\ results = <<>>
    /\ faults = 0
    /\ body_read = FALSE
    /\ s3_gets = 0
    /\ get_outcome = None
    /\ parse_calls = 0
    /\ extracted = {}
    /\ encoded = {}
    /\ put_calls = EmptyFun
    /\ store = {}
    /\ response = NoResponse

\* A request arrives at POST /split-pdf.
ReceiveUpload ==
    /\ pc = "idle"
    /\ \E b \in BearerValues, k \in ApiKeyValues, r \in UploadRequests :
        /\ credentials' = b
        /\ x_api_key' = k
        /\ request' = r
    /\ endpoint' = "upload"
    /\ pc' = "auth"
    /\ UNCHANGED <<config, file_size, total_pages, paging, effects, response>>

\* A request arrives at POST /split-pdf-from-s3.
ReceiveS3 ==
    /\ pc = "idle"
    /\ \E b \in BearerValues, k \in ApiKeyValues, r \in S3Requests :
        /\ credentials' = b
        /\ x_api_key' = k
        /\ request' = r
    /\ endpoint' = "s3"
    /\ pc' = "auth"
    /\ UNCHANGED <<config, file_size, total_pages, paging, effects, response>>

\* verify_token without the truthiness test of x_api_key.
TokenAccepted_PlainEquality(bearer, api_key) ==
    bearer = API_TOKEN \/ api_key = API_TOKEN

\* The two tests of verify_token: a credentials object whose token is
\* API_TOKEN, or a truthy X-API-Key equal to API_TOKEN.
TokenAccepted(bearer, api_key) ==
    \/ (bearer # None /\ bearer = API_TOKEN)
    \/ (api_key # None /\ api_key # "" /\ api_key = API_TOKEN)

\* verify_token, the dependency of both routes: TRUE or a 401.
verify_token ==
    /\ pc = "auth"
    /\ IF TokenAccepted(credentials, x_api_key)
       THEN /\ pc' = "handler"
            /\ response' = response
       ELSE /\ pc' = "done"
            /\ response' = ErrorResponse(
                   HTTPException(401, "Invalid or missing authentication token"))
    /\ credentials' = IF TokenAccepted(credentials, x_api_key) THEN None ELSE credentials
    /\ x_api_key' = IF TokenAccepted(credentials, x_api_key) THEN None ELSE x_api_key
    /\ UNCHANGED <<config, endpoint, request, file_size, total_pages, paging, effects>>


\* Python truthiness of an optional text and of an optional str
Truthy(text) == text # Absent /\ text # <<>>
TruthyStr(str) == str # None /\ str # ""

\* The size test with >= for >.
TooLarge_Inclusive(size) == size >= MAX_FILE_SIZE

\* file_size > MAX_FILE_SIZE
TooLarge(size) == size > MAX_FILE_SIZE

\* total_pages > MAX_PAGES
TooManyPages(n) == n > MAX_PAGES

\* except Exception of split_pdf: whatever was raised inside the try block, an
\* HTTPException included, leaves as a 500.
split_pdf_except(exc) == HTTPException(500, "Error processing PDF")

\* The except clauses without `except HTTPException: raise`.
split_pdf_from_s3_except_CatchAll(exc) ==
    HTTPException(500, "Error processing PDF from S3")

\* except HTTPException: raise / except Exception of split_pdf_from_s3.
split_pdf_from_s3_except(exc) ==
    IF exc.http THEN exc ELSE HTTPException(500, "Error processing PDF from S3")

\* The except clauses of the handler of the endpoint in flight.
HandlerExcept(exc) ==
    IF endpoint = "upload" THEN split_pdf_except(exc) ELSE split_pdf_from_s3_except(exc)

\* split_pdf up to its try block: the filename tests, file.read(), the size
\* and emptiness tests.  These raise outside the try block.
split_pdf_read ==
    /\ pc = "handler"
    /\ endpoint = "upload"
    /\ IF ~Truthy(request.filename)
       THEN /\ response' = ErrorResponse(HTTPException(400, "No filename provided"))
            /\ pc' = "done"
            /\ UNCHANGED <<file_size, body_read>>
       ELSE IF ~EndsWith(Lower(request.filename), DotPdf)
       THEN /\ response' = ErrorResponse(HTTPException(400, "Invalid file type"))
            /\ pc' = "done"
            /\ UNCHANGED <<file_size, body_read>>
       ELSE \E size \in FileSizes :
            /\ body_read' = TRUE
            /\ file_size' = size
            /\ IF TooLarge(size)
               THEN /\ response' = ErrorResponse(HTTPException(413, "File too large"))
                    /\ pc' = "done"
               ELSE IF size = 0
               THEN /\ response' = ErrorResponse(HTTPException(400, "Empty file uploaded"))
                    /\ pc' = "done"
               ELSE /\ response' = response
                    /\ pc' = "parse"
    /\ UNCHANGED <<config, caller, endpoint, request, total_pages, paging,
                   s3_gets, get_outcome, parse_calls, extracted, encoded,
                   put_calls, store>>

\* split_pdf_from_s3 up to its try block: the client, bucket, key and
\* extension tests.
split_pdf_from_s3_validate ==
    /\ pc = "handler"
    /\ endpoint = "s3"
    /\ IF ~s3_client
       THEN /\ response' = ErrorResponse(HTTPException(503, "S3 functionality is not configured"))
            /\ pc' = "done"
       ELSE IF ~TruthyStr(request.bucket)
       THEN /\ response' = ErrorResponse(HTTPException(400, "Bucket name is required"))
            /\ pc' = "done"
       ELSE IF ~Truthy(request.key)
       THEN /\ response' = ErrorResponse(HTTPException(400, "Object key is required"))
            /\ pc' = "done"
       ELSE IF ~EndsWith(Lower(request.key), DotPdf)
       THEN /\ response' = ErrorResponse(HTTPException(400, "Invalid file type"))
            /\ pc' = "done"
       ELSE /\ response' = response
            /\ pc' = "download"
    /\ UNCHANGED <<config, caller, endpoint, request, file_size, total_pages,
                   paging, effects>>

\* What download_from_s3 raises for each outcome of get_object.
download_from_s3_raises(outcome) ==
    CASE outcome = "NoSuchKey" -> HTTPException(404, "File not found")
      [] outcome = "AccessDenied" -> HTTPException(403, "Access denied")
      [] outcome = "OtherClientError" -> HTTPException(500, "Error downloading from S3")
      [] OTHER -> OtherException("get_object failed")

\* await download_from_s3(...) and the size test that follows it, inside the
\* try block of split_pdf_from_s3.
split_pdf_from_s3_download ==
    /\ pc = "download"
    /\ s3_gets' = s3_gets + 1
    /\ \E outcome \in GetOutcomes, size \in FileSizes :
        /\ get_outcome' = outcome
        /\ IF outcome # "ok"
           THEN /\ response' = ErrorResponse(
                       split_pdf_from_s3_except(download_from_s3_raises(outcome)))
                /\ pc' = "done"
                /\ file_size' = file_size
           ELSE /\ file_size' = size
                /\ IF TooLarge(size)
                   THEN /\ response' = ErrorResponse(
                               split_pdf_from_s3_except(HTTPException(413, "File too large")))
                        /\ pc' = "done"
                   ELSE /\ response' = response
                        /\ pc' = "parse"
    /\ UNCHANGED <<config, caller, endpoint, request, total_pages, paging,
                   body_read, parse_calls, extracted, encoded, put_calls, store>>

\* PdfReader(io.BytesIO(file_content)), pdf_reader.metadata, len(pdf_reader.pages)
\* and the page limit, inside the try block of either handler.  PdfReader
\* raises on an empty buffer.
ParsePdf ==
    /\ pc = "parse"
    /\ parse_calls' = parse_calls + 1
    /\ \E outcome \in ParseOutcomes, n \in PageCounts :
        /\ file_size = 0 => outcome = "open_error"
        /\ IF outcome = "open_error"
           THEN /\ response' = ErrorResponse(HandlerExcept(OtherException("PdfReadError")))
                /\ pc' = "done"
                /\ total_pages' = total_pages
           ELSE IF outcome = "metadata_error"
           THEN /\ response' = ErrorResponse(
                       HandlerExcept(HTTPException(400, "Corrupted or invalid PDF file")))
                /\ pc' = "done"
                /\ total_pages' = total_pages
           ELSE /\ total_pages' = n
                /\ IF TooManyPages(n)
                   THEN /\ response' = ErrorResponse(
                               HandlerExcept(HTTPException(422, "PDF has too many pages")))
                        /\ pc' = "done"
                   ELSE /\ response' = response
                        /\ pc' = "pages"
    /\ UNCHANGED <<config, caller, endpoint, request, file_size, paging,
                   body_read, s3_gets, get_outcome, extracted, encoded,
                   put_calls, store>>


\* ------------------------------------------------------ page extraction
\* The size taken after the encoding instead of before it.
SizeInBytes_OfBase64(pdf_bytes) == Len(b64encode(pdf_bytes))

\* size_in_bytes = len(pdf_bytes)
SizeInBytes(pdf_bytes) == Len(pdf_bytes)

\* f"page_{page_num + 1}.pdf" of split_pdf.process_page
UploadPageFilename(p) == PagePart \o IntToStr(p) \o DotPdf

\* The dict split_pdf.process_page returns for page p (1-based).
UploadPageResult(p) ==
    [page_number |-> p,
     filename |-> UploadPageFilename(p),
     data |-> b64encode(PdfBytes(p)),
     size |-> SizeInBytes(PdfBytes(p))]

\* filename = request.key.split('/')[-1].replace('.pdf', '')
KeyFilename(key) == RemoveAll(LastSegment(key, "/"), DotPdf)

\* page_filename = f"{filename}_page_{page_num + 1}.pdf"
S3PageFilename(key, p) == KeyFilename(key) \o <<"_">> \o PagePart \o IntToStr(p) \o DotPdf

\* output_bucket = request.output_bucket or request.bucket
OutputBucket(req) ==
    IF TruthyStr(req.output_bucket) THEN req.output_bucket ELSE req.bucket

\* output_prefix = request.output_prefix or ""
OutputPrefix(req) == IF Truthy(req.output_prefix) THEN req.output_prefix ELSE <<>>

\* output_key = f"{output_prefix}{page_filename}"
OutputKey(req, p) == OutputPrefix(req) \o S3PageFilename(req.key, p)

\* The tuple split_pdf_from_s3.process_page returns for page p (1-based).
S3PageResult(req, p) ==
    IF req.save_to_s3
    THEN [page_number |-> p,
          filename |-> S3PageFilename(req.key, p),
          data |-> Absent,
          size |-> SizeInBytes(PdfBytes(p)),
          output_key |-> OutputKey(req, p)]
    ELSE [page_number |-> p,
          filename |-> S3PageFilename(req.key, p),
          data |-> b64encode(PdfBytes(p)),
          size |-> SizeInBytes(PdfBytes(p)),
          output_key |-> Absent]

PageResult(p) ==
    IF endpoint = "upload" THEN UploadPageResult(p) ELSE S3PageResult(request, p)

\* The object a put_object call of upload_to_s3 writes for page p.
PutObject(req, p) ==
    [Bucket |-> OutputBucket(req), Key |-> OutputKey(req, p),
     Body |-> PdfBytes(p), ContentType |-> "application/pdf"]

Saving == endpoint = "s3" /\ request.save_to_s3

\* How one call of process_page may end: it returns, the serialisation of
\* the page raises, or (object-store delivery) put_object raises.
PageOutcomes(p) ==
    {"ok"} \cup
    (IF faults < MaxFaults /\ p \in FaultPages(total_pages)
     THEN {"extract_fault"} \cup (IF Saving THEN {"upload_fault"} ELSE {})
     ELSE {})

\* What process_page raises when it does not return: the PdfWriter's error, or
\* upload_to_s3's HTTPException for a ClientError.
process_page_raises(outcome) ==
    IF outcome = "upload_fault"
    THEN HTTPException(500, "Error uploading to S3")
    ELSE OtherException("PdfWriter error")

IncrementAt(f, p) ==
    [q \in DOMAIN f \cup {p} |-> IF q = p
                                THEN (IF p \in DOMAIN f THEN f[p] + 1 ELSE 1)
                                ELSE f[q]]

\* The side effects of one call of process_page for page p ending in outcome.
process_page(p, outcome) ==
    /\ faults' = IF outcome = "ok" THEN faults ELSE faults + 1
    /\ extracted' = IF outcome = "extract_fault" THEN extracted ELSE extracted \cup {p}
    /\ encoded' = IF outcome = "ok" /\ ~Saving THEN encoded \cup {p} ELSE encoded
    /\ put_calls' = IF outcome # "extract_fault" /\ Saving
                    THEN IncrementAt(put_calls, p) ELSE put_calls
    /\ store' = IF outcome = "ok" /\ Saving
                THEN store \cup {PutObject(request, p)} ELSE store
    /\ UNCHANGED <<body_read, s3_gets, get_outcome, parse_calls>>

\* ---------------------------------------------------------- scheduling
\* The mode test with >= for >.
UseGather_Inclusive(n) == n >= PARALLEL_THRESHOLD

\* if total_pages > 10
UseGather(n) == n > PARALLEL_THRESHOLD

\* The loop with the failure of a page swallowed: it goes on to the next page.
SequentialStep_ContinueOnError ==
    /\ pc = "pages"
    /\ ~UseGather(total_pages)
    /\ page_num < total_pages
    /\ \E outcome \in PageOutcomes(page_num + 1) :
        /\ process_page(page_num + 1, outcome)
        /\ results' = IF outcome = "ok"
                      THEN Append(results, PageResult(page_num + 1))
                      ELSE results
    /\ page_num' = page_num + 1
    /\ UNCHANGED <<config, caller, endpoint, request, file_size, total_pages,
                   tasks, gathered, pc, response>>

\* One iteration of the sequential loop:
\* results.append(await process_page(page_num)).
SequentialStep ==
    /\ pc = "pages"
    /\ ~UseGather(total_pages)
    /\ page_num < total_pages
    /\ \E outcome \in PageOutcomes(page_num + 1) :
        /\ process_page(page_num + 1, outcome)
        /\ IF outcome = "ok"
           THEN /\ results' = Append(results, PageResult(page_num + 1))
                /\ page_num' = page_num + 1
                /\ pc' = pc
                /\ response' = response
           ELSE /\ response' = ErrorResponse(HandlerExcept(process_page_raises(outcome)))
                /\ pc' = "done"
                /\ UNCHANGED <<results, page_num>>
    /\ UNCHANGED <<config, caller, endpoint, request, file_size, total_pages,
                   tasks, gathered>>

\* The sequential loop ends.
SequentialEnd ==
    /\ pc = "pages"
    /\ ~UseGather(total_pages)
    /\ page_num = total_pages
    /\ pc' = "return"
    /\ UNCHANGED <<config, caller, endpoint, request, file_size, total_pages,
                   paging, effects, response>>

\* tasks = [process_page(page_num) for page_num in range(total_pages)] and the
\* call of asyncio.gather(*tasks): every page task exists before any runs.
GatherDispatch ==
    /\ pc = "pages"
    /\ UseGather(total_pages)
    /\ tasks' = [p \in 1..total_pages |-> "pending"]
    /\ gathered' = [p \in 1..total_pages |-> NoResult]
    /\ pc' = "gather"
    /\ UNCHANGED <<config, caller, endpoint, request, file_size, total_pages,
                   page_num, results, faults, effects, response>>

\* Results kept in the order the tasks finish in: the first free position.
GatherCollect_CompletionOrder(slots, p, r) ==
    LET free == CHOOSE i \in DOMAIN slots :
                    /\ slots[i] = NoResult
                    /\ \A j \in DOMAIN slots : j < i => slots[j] # NoResult
    IN  [slots EXCEPT ![free] = r]

\* gather keeps each task's result at the position of the task in its
\* argument list.
GatherCollect(slots, p, r) == [slots EXCEPT ![p] = r]

\* A pending task may run while fewer than SchedWindow pending tasks precede it.
Runnable(p) ==
    /\ p \in DOMAIN tasks
    /\ tasks[p] = "pending"
    /\ Cardinality({q \in DOMAIN tasks : q < p /\ tasks[q] = "pending"}) < SchedWindow

\* The event loop runs one page task to its end.  gather cancels nothing: the
\* tasks still pending when one has failed, or when the handler has already
\* answered, run as well.
GatherRunTask ==
    /\ pc \in {"gather", "done"}
    /\ \E p \in DOMAIN tasks :
        /\ Runnable(p)
        /\ \E outcome \in PageOutcomes(p) :
            /\ process_page(p, outcome)
            /\ IF outcome = "ok"
               THEN /\ tasks' = [tasks EXCEPT ![p] = "done"]
                    /\ gathered' = GatherCollect(gathered, p, PageResult(p))
               ELSE /\ tasks' = [tasks EXCEPT ![p] = outcome]
                    /\ gathered' = gathered
    /\ UNCHANGED <<config, caller, endpoint, request, file_size, total_pages,
                   pc, page_num, results, response>>

\* await asyncio.gather(...) raises the exception of a failed task.
GatherRaise ==
    /\ pc = "gather"
    /\ \E p \in DOMAIN tasks :
        /\ tasks[p] \in {"extract_fault", "upload_fault"}
        /\ response' = ErrorResponse(HandlerExcept(process_page_raises(tasks[p])))
    /\ pc' = "done"
    /\ UNCHANGED <<config, caller, endpoint, request, file_size, total_pages,
                   paging, effects>>

\* gather as with return_exceptions=True: it returns once no task is pending
\* and the results of the tasks that did not fail are kept.
GatherReturn_ReturnExceptions ==
    /\ pc = "gather"
    /\ \A p \in DOMAIN tasks : tasks[p] # "pending"
    /\ results' = SelectSeq([i \in 1..total_pages |-> gathered[i]],
                            LAMBDA r : r.page_number # 0)
    /\ pc' = "return"
    /\ UNCHANGED <<config, caller, endpoint, request, file_size, total_pages,
                   page_num, tasks, gathered, faults, effects, response>>

\* await asyncio.gather(...) returns the list of results, every task done.
GatherReturn ==
    /\ pc = "gather"
    /\ \A p \in DOMAIN tasks : tasks[p] = "done"
    /\ results' = [i \in 1..total_pages |-> gathered[i]]
    /\ pc' = "return"
    /\ UNCHANGED <<config, caller, endpoint, request, file_size, total_pages,
                   page_num, tasks, gathered, faults, effects, response>>

\* ----------------------------------------------------------- responses
\* pages_split as "not exactly one page".
PagesSplit_NotOne(n) == n # 1

\* "pages_split": total_pages > 1
PagesSplit(n) == n > 1

\* s3_output_files = [r[4] for r in results if r[4]]
RECURSIVE S3OutputFiles(_)
S3OutputFiles(rs) ==
    IF rs = <<>> THEN <<>>
    ELSE (IF Truthy(rs[1].output_key) THEN <<rs[1].output_key>> ELSE <<>>)
         \o S3OutputFiles(Tail(rs))

\* The list comprehension that builds "files" from the result tuples.
S3SplitFiles(rs) ==
    [i \in 1..Len(rs) |-> [page_number |-> rs[i].page_number,
                           filename |-> rs[i].filename,
                           data |-> rs[i].data,
                           size |-> rs[i].size]]

\* The dict split_pdf returns.
split_pdf_response(filename, n, rs) ==
    [status |-> 200,
     original_filename |-> filename,
     total_pages |-> n,
     pages_split |-> PagesSplit(n),
     files |-> rs]

\* The response with "files" built whatever save_to_s3 says.
split_pdf_from_s3_response_BothLists(req, n, rs) ==
    [status |-> 200,
     original_s3_location |-> [bucket |-> req.bucket, key |-> req.key],
     total_pages |-> n,
     pages_split |-> n > 1,
     files |-> S3SplitFiles(rs),
     s3_output_files |-> IF req.save_to_s3 THEN S3OutputFiles(rs) ELSE Absent]

\* The dict split_pdf_from_s3 returns.
split_pdf_from_s3_response(req, n, rs) ==
    IF req.save_to_s3
    THEN [status |-> 200,
          original_s3_location |-> [bucket |-> req.bucket, key |-> req.key],
          total_pages |-> n,
          pages_split |-> PagesSplit(n),
          files |-> <<>>,
          s3_output_files |-> S3OutputFiles(rs)]
    ELSE [status |-> 200,
          original_s3_location |-> [bucket |-> req.bucket, key |-> req.key],
          total_pages |-> n,
          pages_split |-> PagesSplit(n),
          files |-> S3SplitFiles(rs),
          s3_output_files |-> Absent]

\* The handler returns its success response.
Return ==
    /\ pc = "return"
    /\ response' = IF endpoint = "upload"
                   THEN split_pdf_response(request.filename, total_pages, results)
                   ELSE split_pdf_from_s3_response(request, total_pages, results)
    /\ pc' = "done"
    /\ UNCHANGED <<config, caller, endpoint, request, file_size, total_pages,
                   paging, effects>>

\* The request is over (no task of it is left to run); the next one may come.
NextRequest ==
    /\ pc = "done"
    /\ \A p \in DOMAIN tasks : tasks[p] # "pending"
    /\ pc' = "idle"
    /\ endpoint' = None
    /\ credentials' = None
    /\ x_api_key' = None
    /\ request' = NoRequest
    /\ file_size' = -1
    /\ total_pages' = -1
    /\ page_num' = 0
    /\ tasks' = EmptyFun
    /\ gathered' = EmptyFun
    /\ results' = <<>>
    /\ faults' = 0
    /\ body_read' = FALSE
    /\ s3_gets' = 0
    /\ get_outcome' = None
    /\ parse_calls' = 0
    /\ extracted' = {}
    /\ encoded' = {}
    /\ put_calls' = EmptyFun
    /\ store' = {}
    /\ response' = NoResponse
    /\ UNCHANGED config

Next ==
    \/ ReceiveUpload
    \/ ReceiveS3
    \/ verify_token
    \/ split_pdf_read
    \/ split_pdf_from_s3_validate
    \/ split_pdf_from_s3_download
    \/ ParsePdf
    \/ SequentialStep
    \/ SequentialEnd
    \/ GatherDispatch
    \/ GatherRunTask
    \/ GatherRaise
    \/ GatherReturn
    \/ Return
    \/ NextRequest

Spec == Init /\ [][Next]_vars


\* -------------------------------------------------------------- claims
Success == response.status = 200
InlineSuccess == Success /\ (endpoint = "upload" \/ ~request.save_to_s3)
StoredSuccess == Success /\ endpoint = "s3" /\ request.save_to_s3
NoPageWork == extracted = {} /\ encoded = {} /\ put_calls = EmptyFun /\ store = {}
\* PdfReader or pdf_reader.metadata raised on the buffer of this request.
ParseFailed == pc = "done" /\ parse_calls > 0 /\ total_pages = -1

\* C1: a success response with inline pages carries exactly total_pages
\* entries (0 <= total_pages <= MAX_PAGES) and the entry at position i has
\* page_number = i, on the sequential path and on the gather path, whatever
\* order the gathered tasks finished in.
C1_InlinePagesInOrder ==
    InlineSuccess =>
        /\ 0 <= total_pages /\ total_pages <= MAX_PAGES
        /\ response.total_pages = total_pages
        /\ Len(response.files) = total_pages
        /\ \A i \in 1..Len(response.files) : response.files[i].page_number = i

\* C1 witness: an inline success of the gather path.
C1_Witness == InlineSuccess /\ UseGather(total_pages)

\* C2: a parsed document with more than MAX_PAGES pages ends the request with
\* status 422, and no page is extracted, encoded or uploaded.
C2_TooManyPagesIs422 ==
    (pc = "done" /\ total_pages > MAX_PAGES) =>
        (response.status = 422 /\ NoPageWork)

\* C3: a non-empty buffer within the size limit on which opening the PDF or
\* reading its metadata raises ends the request with status 400.
C3_CorruptedIs400 ==
    (ParseFailed /\ file_size > 0 /\ file_size <= MAX_FILE_SIZE) =>
        response.status = 400

\* C4: a source document of 0 bytes ends the request with status 400 and is
\* never handed to the PDF parser, on either endpoint.
C4_EmptyIs400 ==
    file_size = 0 =>
        (pc = "done" /\ response.status = 400 /\ parse_calls = 0)

C7_FalseIffOnePage ==
    Success => (response.pages_split = FALSE <=> response.total_pages = 1)

\* C7, amended: in a success response pages_split is true if and only if
\* total_pages > 1; it is false for 1 page and for 0 pages.
C7_TrueIffMoreThanOnePage ==
    Success =>
        /\ response.total_pages = total_pages
        /\ response.pages_split <=> response.total_pages > 1

\* C7 witness: a success response for a document of 0 pages.
C7_Witness == Success /\ response.total_pages = 0 /\ response.pages_split = FALSE

C9_ExactlyOneListPopulated ==
    (Success /\ endpoint = "s3") =>
        IF request.save_to_s3
        THEN /\ response.files = <<>>
             /\ Len(response.s3_output_files) = total_pages
             /\ \A i \in 1..total_pages :
                    \E o \in store : /\ o.Key = response.s3_output_files[i]
                                     /\ o.Body = PdfBytes(i)
        ELSE /\ Len(response.files) = total_pages
             /\ response.s3_output_files = Absent

\* C9 witness: a stored success of the gather path.
C9_Witness == StoredSuccess /\ UseGather(total_pages)

\* The base name C10 states: the key's last '/'-separated segment with only
\* its final extension removed.
RECURSIVE StripFinalExtensionFrom(_, _)
StripFinalExtensionFrom(s, i) ==
    IF i = 0 THEN s
    ELSE IF s[i] = "." THEN SubSeq(s, 1, i - 1)
    ELSE StripFinalExtensionFrom(s, i - 1)

StatedBase(key) ==
    LET seg == LastSegment(key, "/") IN StripFinalExtensionFrom(seg, Len(seg))

StatedKey(req, n) ==
    (IF req.output_prefix = Absent THEN <<>> ELSE req.output_prefix)
    \o StatedBase(req.key) \o <<"_">> \o PagePart \o IntToStr(n) \o DotPdf

StatedBucket(req) ==
    IF req.output_bucket = None THEN req.bucket ELSE req.output_bucket

\* C10: in object-store delivery page n of an accepted key is written to
\* output_bucket (the source bucket when absent) under output_prefix + base +
\* '_page_' + n + '.pdf', base being the key's last segment without its final
\* extension, and that key is the one reported.
C10_OutputKeyAsStated ==
    StoredSuccess =>
        \A n \in 1..total_pages :
            /\ response.s3_output_files[n] = StatedKey(request, n)
            /\ \E o \in store : /\ o.Bucket = StatedBucket(request)
                                /\ o.Key = StatedKey(request, n)
                                /\ o.Body = PdfBytes(n)


\* C11: for an authenticated object-store request the fetch decides the
\* status: no storage client gives 503 (and no get_object call), NoSuchKey
\* gives 404, AccessDenied gives 403, every other fault of the storage read
\* gives 500; the handler's except clauses rewrite none of these, and 503, 404
\* and 403 have no other cause.
C11_FetchOutcomeDecidesStatus ==
    (endpoint = "s3" /\ pc = "done" /\ response.status # 401) =>
        /\ ~s3_client => (response.status = 503 /\ s3_gets = 0)
        /\ get_outcome = "NoSuchKey" => response.status = 404
        /\ get_outcome = "AccessDenied" => response.status = 403
        /\ get_outcome \in {"OtherClientError", "OtherException"} =>
               response.status = 500
        /\ response.status = 503 => ~s3_client
        /\ response.status = 404 => get_outcome = "NoSuchKey"
        /\ response.status = 403 => get_outcome = "AccessDenied"

\* C11 witness: a missing object answered 404.
C11_Witness ==
    endpoint = "s3" /\ get_outcome = "NoSuchKey" /\ response.status = 404


\* C12: in object-store delivery, once the extraction or the upload of a page
\* has failed the request never answers with a success, and it ends with
\* status 500, on the sequential path and on the gather path; while the
\* request lasts no object it has written leaves the store, and no page is
\* written twice.
C12_FailedPageNeverSuccess ==
    [][ /\ (Saving' /\ faults' > 0) => response'.status \in {0, 500}
        /\ (Saving' /\ faults' > 0 /\ pc' = "done") => response'.status = 500
        /\ (Saving /\ pc' # "idle") => store \subseteq store'
        /\ Saving' => \A p \in DOMAIN put_calls' : put_calls'[p] = 1 ]_vars

\* C12 witness: a gathered request answered 500 after a failed page, with
\* objects of other pages already written.
C12_Witness ==
    /\ Saving
    /\ total_pages > PARALLEL_THRESHOLD
    /\ faults > 0
    /\ pc = "done"
    /\ response.status = 500
    /\ store # {}


\* C13: the page count alone picks the mode.  With at most 10 pages no task
\* is gathered, the pages are processed one at a time in ascending order (the
\* pages touched are 1..k, only the last of them possibly unfinished, and then
\* the request is over).  With more than 10 pages every page task exists
\* before any page is processed, no result reaches the handler before all
\* tasks are done, and the success response is built only then.
C13_ModeByPageCount ==
    (0 <= total_pages /\ total_pages <= MAX_PAGES) =>
        IF total_pages <= 10
        THEN /\ DOMAIN tasks = {}
             /\ Len(results) = page_num
             /\ \A i \in 1..Len(results) : results[i].page_number = i
             /\ extracted \in {1..page_num, 1..(page_num + 1)}
             /\ extracted # 1..page_num => pc = "done"
             /\ Success => page_num = total_pages
        ELSE /\ page_num = 0
             /\ (extracted # {} \/ put_calls # EmptyFun \/ results # <<>>) =>
                    DOMAIN tasks = 1..total_pages
             /\ (results # <<>> \/ Success) =>
                    /\ DOMAIN tasks = 1..total_pages
                    /\ \A p \in 1..total_pages : tasks[p] = "done"

\* C13 witness: a success of the gather path at its smallest page count.
C13_Witness ==
    /\ Success
    /\ total_pages = 11
    /\ \A p \in 1..total_pages : tasks[p] = "done"


\* C14: in object-store delivery on the sequential path (at most 10 pages)
\* the pages for which put_object has been issued are always 1..k for some k,
\* each page's put_object is issued once, and once the task of page k has
\* failed the request is over with status 500, no put_object was issued beyond
\* page k and the objects written are exactly those of pages 1..k-1.
C14_SequentialUploadsArePrefix ==
    (Saving /\ 0 <= total_pages /\ total_pages <= 10) =>
        /\ DOMAIN put_calls \in {1..page_num, 1..(page_num + 1)}
        /\ \A p \in DOMAIN put_calls : put_calls[p] = 1
        /\ faults = 0 =>
               /\ DOMAIN put_calls = 1..page_num
               /\ store = {PutObject(request, p) : p \in 1..page_num}
        /\ faults > 0 =>
               /\ pc = "done"
               /\ response.status = 500
               /\ DOMAIN put_calls \subseteq 1..(page_num + 1)
               /\ store = {PutObject(request, p) : p \in 1..page_num}
               /\ Cardinality(store) = page_num

\* C14 witness: a sequential request that failed at a page k >= 3, leaving
\* the objects of pages 1..k-1.
C14_Witness ==
    /\ Saving
    /\ total_pages <= 10
    /\ faults > 0
    /\ response.status = 500
    /\ page_num >= 2
    /\ Cardinality(store) = page_num


====
